---- MODULE Spec2Model ----
(***************************************************************************)
(* RpcClientPool (pool of gRPC client connections): createPool /           *)
(* NewRpcClientPool, Get and Put, run by concurrent callers.               *)
(*                                                                         *)
(* A connection (a grpc.ClientConn pointer) is an identity 1, 2, ...; Nil  *)
(* is nil.  An endpoint is its index 0 .. len(endpoints)-1, as in          *)
(* endpoints_map.  conn_pool is the buffered channel, a FIFO sequence      *)
(* whose capacity was fixed by make().  conn_endpoints is the Go map; it   *)
(* is not guarded by any lock, so its writes are modelled in two steps     *)
(* (begin, end) and overlapping accesses have the outcomes the Go runtime  *)
(* can produce: the accesses take effect in some order, the runtime        *)
(* aborts the process ("concurrent map writes"), or two overlapping        *)
(* inserts share one bucket slot and one value lands on the other's key.   *)
(***************************************************************************)
EXTENDS Integers, Sequences, FiniteSets, TLC

\* ---- bounds of the model
MaxEndpoints == 3
MaxConnPerEp == 2
MaxCapacity == 2
MaxConns == 6
NumCallers == 2
MaxRounds == 3
MaxExtraPuts == 1
MaxHbFailures == 3
MaxConfigs == 3

Nil == 0

\* the service names (SvcName) the configuration may use
Services == {"A", "B"}

Callers == 1 .. NumCallers
Conns == 1 .. MaxConns

INVALID_REQ == "INVALID_REQ"
FATAL_ERROR == "FATAL_ERROR"

VARIABLES
    len_endpoints,   \* len(endpoints) given to NewRpcClientPool
    conn_per_ep,     \* conn_per_ep given to NewRpcClientPool
    phase,           \* position of NewRpcClientPool/createPool
    ci, cj,          \* loop variables i, j of createPool
    err,             \* error returned by createPool ("" is nil)
    conn_pool,       \* r.conn_pool, the buffered channel's content
    conn_endpoints,  \* r.conn_endpoints
    endpoints_map,   \* keys of r.endpoints_map
    pool_created,    \* r.pool_created
    attempts,        \* history: newRPCConn calls made by createPool
    createdOk,       \* history: newRPCConn calls of createPool that succeeded
    dialedAt,        \* history: endpoint index each connection was dialed against
    pc,              \* per caller: position inside Get
    conn,            \* per caller: local variable conn of Get
    ep,              \* per caller: local variable ep of Get
    held,            \* per caller: connections obtained from Get, not yet released
    alias,           \* per caller mid-insert: key an overlapping insert put in its slot
    crashed,         \* the runtime aborted the process on a detected map race
    hbFailed,        \* per caller: doHeartBeat failed in the current round of Get
    rounds,          \* per caller: pops made by the current Get call (saturating)
    startTracked,    \* per caller: len(conn_endpoints) when the current call started
    allFail,         \* per caller: no heartbeat and no dial succeeded since the call started
    hbFailures,      \* history: number of doHeartBeat calls that failed
    anyRedial,       \* history: Get has called newRPCConn
    extraPuts,       \* number of releases by callers that kept the pointer
    last,            \* the step taken last: [op, who, c]
    ClientConfig,    \* c.ClientConfig: the service name of each configured endpoint
    heartbeat_map,   \* keys of the heartbeat_map given to CreateClientPool
    ep_map,          \* ep_map of CreateClientPool: service name -> its descriptors
    todo,            \* keys of ep_map the range loop has not visited yet
    cur,             \* loop variable k of CreateClientPool's second loop
    client_map,      \* c.client_map: service name -> pool (or a nil pointer)
    regPhase,        \* position of the registry's client
    regErr,          \* error returned by CreateClientPool
    regHeld,         \* connections obtained from GetPooledConn, not yet given back
    regLast          \* the registry call made last: [op, svc, ret]

vars == << len_endpoints, conn_per_ep, phase, ci, cj, err, attempts, createdOk,
           conn_pool, conn_endpoints,
           endpoints_map, pool_created, pc, conn, ep, held,
           alias, crashed, hbFailed, rounds, startTracked, allFail,
           hbFailures, anyRedial, extraPuts, last,
           ClientConfig, heartbeat_map, ep_map, todo, cur, client_map, regPhase,
           regErr, regHeld, regLast >>

createVars == << len_endpoints, conn_per_ep, phase, ci, cj, err, endpoints_map, pool_created,
                attempts, createdOk >>
regVars == << ClientConfig, heartbeat_map, ep_map, todo, cur, client_map, regPhase,
             regErr, regHeld, regLast >>
callVars == << pc, conn, ep, held, alias, hbFailed, rounds, startTracked, allFail,
              hbFailures, anyRedial >>

\* ---- helpers: the Go map and the channel

\* len(r.conn_endpoints)
MapLen(m) == Cardinality(DOMAIN m)

\* r.conn_endpoints[c] as an rvalue: the zero value 0 for a missing key
MapGet(m, c) == IF c \in DOMAIN m THEN m[c] ELSE 0

\* r.conn_endpoints[c] = i
MapSet(m, c, i) == [x \in (DOMAIN m) \cup {c} |-> IF x = c THEN i ELSE m[x]]

\* delete(r.conn_endpoints, c)
MapDelete(m, c) == [x \in (DOMAIN m) \ {c} |-> m[x]]

\* cap(r.conn_pool) as made by createPool
Capacity == conn_per_ep * len_endpoints

\* a send that does not look at the capacity
ChanOfferUnbounded(q, c, cap) == Append(q, c)

\* a send that makes room by dropping the oldest entry
ChanOfferEvict(q, c, cap) == IF Len(q) < cap THEN Append(q, c) ELSE Append(Tail(q), c)

\* select { case r.conn_pool <- c: default: }
ChanOffer(q, c, cap) == IF Len(q) < cap THEN Append(q, c) ELSE q

Event(o, p, c) == [op |-> o, who |-> p, c |-> c]

RegEvent(o, k, c) == [op |-> o, svc |-> k, ret |-> c]

\* the error values of CreateClientPool: nil, and errors.New(text + k)
NoError == [kind |-> "", svc |-> ""]
MissingHeartbeat(k) == [kind |-> "Heartbeat function missing for Service", svc |-> k]
PoolCreateFailed(k) == [kind |-> "Failed to create conn pool for Service", svc |-> k]

\* ---- connection identities

Min(S) == CHOOSE x \in S : \A y \in S : x <= y

\* the connections some pointer still refers to: in the map, in the channel,
\* kept by a caller, or in a local variable of a running Get
Referenced(m, q, h, cn, al) ==
    ((DOMAIN m) \cup {q[k] : k \in DOMAIN q} \cup UNION {h[p] : p \in Callers}
        \cup {cn[p] : p \in Callers} \cup {al[p] : p \in Callers}) \ {Nil}

\* the connections referenced through the registry: by a pool stored in
\* c.client_map, or kept by the registry's client
RegReferenced ==
    UNION {(DOMAIN client_map[k].conn_endpoints)
              \cup {client_map[k].conn_pool[x] : x \in DOMAIN client_map[k].conn_pool}
                 : k \in DOMAIN client_map}
        \cup UNION {regHeld[k] : k \in Services}

Unreferenced ==
    Conns \ (Referenced(conn_endpoints, conn_pool, held, conn, alias) \cup RegReferenced)

\* the pointer a successful grpc.Dial returns: a new object, which is no object
\* still referenced (an unreferenced identity can be handed out again); Nil
\* when the model's identities are used up
NewConn == IF Unreferenced = {} THEN Nil ELSE Min(Unreferenced)

\* the dial history of the connections still referenced in the next state
Prune(d) ==
    [c \in (DOMAIN d) \cap Referenced(conn_endpoints', conn_pool', held', conn', alias') |-> d[c]]

\* ---- construction

\* NewRpcClientPool called with any endpoints and conn_per_ep within the bounds
InitCreate ==
    /\ len_endpoints \in 0 .. MaxEndpoints
    /\ conn_per_ep \in 0 .. MaxConnPerEp
    /\ phase = "new"
    /\ ci = 0
    /\ cj = 0
    /\ err = ""
    /\ attempts = 0
    /\ createdOk = 0
    /\ conn_pool = << >>
    /\ conn_endpoints = << >>
    /\ endpoints_map = {}
    /\ pool_created = FALSE
    /\ dialedAt = << >>
    /\ pc = [p \in Callers |-> "idle"]
    /\ conn = [p \in Callers |-> Nil]
    /\ ep = [p \in Callers |-> 0]
    /\ held = [p \in Callers |-> {}]
    /\ alias = [p \in Callers |-> Nil]
    /\ crashed = FALSE
    /\ hbFailed = [p \in Callers |-> FALSE]
    /\ rounds = [p \in Callers |-> 0]
    /\ startTracked = [p \in Callers |-> 0]
    /\ allFail = [p \in Callers |-> FALSE]
    /\ hbFailures = 0
    /\ anyRedial = FALSE
    /\ extraPuts = 0
    /\ last = Event("init", 0, Nil)
    /\ ClientConfig = << >>
    /\ heartbeat_map = {}
    /\ ep_map = << >>
    /\ todo = {}
    /\ cur = ""
    /\ client_map = << >>
    /\ regPhase = "unused"
    /\ regErr = NoError
    /\ regHeld = [k \in Services |-> {}]
    /\ regLast = RegEvent("init", "", Nil)

\* the pools small enough to follow under concurrent callers
Init ==
    /\ InitCreate
    /\ conn_per_ep * len_endpoints <= MaxCapacity

\* an argument check that rejects only a request with both arguments zero
InvalidRequestBoth(n, c) == n = 0 /\ c = 0

\* createPool's argument check
InvalidRequest(n, c) == n = 0 \/ c = 0

\* createPool, lines 27-33: reject a bad request, else make the maps and the channel
CreateCheck ==
    /\ phase = "new"
    /\ IF InvalidRequest(len_endpoints, conn_per_ep)
          THEN /\ err' = INVALID_REQ
               /\ phase' = "failed"
               /\ UNCHANGED << ci, endpoints_map >>
          ELSE /\ err' = err
               /\ phase' = "dialing"
               \* with conn_per_ep = 0 the inner loop body never runs
               /\ ci' = IF conn_per_ep = 0 THEN len_endpoints ELSE 0
               /\ endpoints_map' = IF conn_per_ep = 0 THEN 0 .. (len_endpoints - 1) ELSE {}
    /\ last' = Event("create_check", 0, Nil)
    /\ UNCHANGED << len_endpoints, conn_per_ep, cj, conn_pool, conn_endpoints,
                    pool_created, attempts, createdOk, crashed, extraPuts >>
    /\ UNCHANGED callVars
    /\ dialedAt' = Prune(dialedAt)
    /\ UNCHANGED regVars

\* next (i, j) of the nested loops
NextI(i, j) == IF j + 1 = conn_per_ep THEN i + 1 ELSE i
NextJ(i, j) == IF j + 1 = conn_per_ep THEN 0 ELSE j + 1

\* the inner loop's variable taken for the endpoint's index
CreateIndexInner(i, j) == j

\* the index createPool records for a connection dialed in iteration (i, j)
CreateIndex(i, j) == i

\* createPool, lines 36-45: one iteration of the inner loop, the dial succeeding
CreateDialOk ==
    /\ phase = "dialing"
    /\ ci < len_endpoints
    /\ NewConn # Nil
    /\ endpoints_map' = endpoints_map \cup {ci}
    /\ conn_endpoints' = MapSet(conn_endpoints, NewConn, CreateIndex(ci, cj))
    /\ conn_pool' = ChanOffer(conn_pool, NewConn, Capacity)
    /\ ci' = NextI(ci, cj)
    /\ cj' = NextJ(ci, cj)
    /\ attempts' = attempts + 1
    /\ createdOk' = createdOk + 1
    /\ last' = Event("create_dial_ok", 0, NewConn)
    /\ UNCHANGED << len_endpoints, conn_per_ep, phase, err, pool_created, crashed, extraPuts >>
    /\ UNCHANGED callVars
    /\ dialedAt' = Prune(MapSet(dialedAt, NewConn, ci))
    /\ UNCHANGED regVars

\* createPool, lines 36-41: one iteration of the inner loop, the dial failing
CreateDialFail ==
    /\ phase = "dialing"
    /\ ci < len_endpoints
    /\ endpoints_map' = endpoints_map \cup {ci}
    /\ ci' = NextI(ci, cj)
    /\ cj' = NextJ(ci, cj)
    /\ attempts' = attempts + 1
    /\ last' = Event("create_dial_fail", 0, Nil)
    /\ UNCHANGED << len_endpoints, conn_per_ep, phase, err, pool_created, conn_pool,
                    conn_endpoints, createdOk, crashed, extraPuts >>
    /\ UNCHANGED callVars
    /\ dialedAt' = Prune(dialedAt)
    /\ UNCHANGED regVars

\* a test after the loops that never reports the failure
NoConnectionIgnored(m) == FALSE

\* createPool's test after the loops
NoConnection(m) == MapLen(m) = 0

\* createPool, lines 48-52, and NewRpcClientPool's nil on error
CreateFinish ==
    /\ phase = "dialing"
    /\ ci = len_endpoints
    /\ IF NoConnection(conn_endpoints)
          THEN /\ err' = FATAL_ERROR
               /\ phase' = "failed"
               /\ pool_created' = pool_created
          ELSE /\ err' = err
               /\ phase' = "ready"
               /\ pool_created' = TRUE
    /\ last' = Event("create_finish", 0, Nil)
    /\ UNCHANGED << len_endpoints, conn_per_ep, ci, cj, conn_pool, conn_endpoints,
                    endpoints_map, attempts, createdOk, crashed, extraPuts >>
    /\ UNCHANGED callVars
    /\ dialedAt' = Prune(dialedAt)
    /\ UNCHANGED regVars

\* NewRpcClientPool returned a pool (not nil): callers can use it
PoolReturned == phase = "ready"


\* ---- Get and Put, run by the callers of a returned pool
\* A step of Get ends at each access to the shared channel or map; the calls
\* that touch nothing shared (doHeartBeat, newRPCConn) run inside the step that
\* follows the access before them.

Running == PoolReturned /\ ~crashed

\* callers between the begin and the end of a write to conn_endpoints
MidWrite == {q \in Callers : pc[q] \in {"deleting", "inserting"}}

\* callers at or inside an access to conn_endpoints on the redial path
\* (lines 106, 107, 114)
AtMapAccess == {q \in Callers : pc[q] \in {"redial", "deleting", "inserting"}}

\* a return that hands the caller nil whatever Get had in hand
ReturnNone(p, c) ==
    /\ pc' = [pc EXCEPT ![p] = "idle"]
    /\ conn' = [conn EXCEPT ![p] = Nil]
    /\ ep' = [ep EXCEPT ![p] = 0]
    /\ held' = held
    /\ hbFailed' = [hbFailed EXCEPT ![p] = FALSE]

\* return from Get with value c: the caller now holds c
Return(p, c) ==
    /\ pc' = [pc EXCEPT ![p] = "idle"]
    /\ conn' = [conn EXCEPT ![p] = Nil]
    /\ ep' = [ep EXCEPT ![p] = 0]
    /\ held' = [held EXCEPT ![p] = IF c = Nil THEN @ ELSE @ \cup {c}]
    /\ hbFailed' = [hbFailed EXCEPT ![p] = FALSE]

\* the histories of a call that is over, or that saw a heartbeat or dial succeed
NoHistory == [q \in Callers |-> 0]
EndCall(p) ==
    /\ rounds' = [rounds EXCEPT ![p] = 0]
    /\ startTracked' = [startTracked EXCEPT ![p] = 0]
    /\ allFail' = [allFail EXCEPT ![p] = FALSE]
SuccessSeen ==
    /\ rounds' = NoHistory
    /\ startTracked' = NoHistory
    /\ allFail' = [q \in Callers |-> FALSE]

\* a Get that goes to the select without its first test
NoMoreConnectionsSkipped(m) == FALSE

\* Get's first test: no connection left in the map
NoMoreConnections(m) == MapLen(m) = 0

\* a caller calls Get: lines 97-101 of the outermost call
GetCall(p) ==
    /\ Running
    /\ pc[p] = "idle"
    /\ IF NoMoreConnections(conn_endpoints)
          THEN /\ Return(p, Nil)
               /\ EndCall(p)
               /\ last' = Event("return_no_conns", p, Nil)
          ELSE /\ pc' = [pc EXCEPT ![p] = "select"]
               /\ rounds' = [rounds EXCEPT ![p] = 0]
               /\ startTracked' = [startTracked EXCEPT ![p] = MapLen(conn_endpoints)]
               /\ allFail' = [allFail EXCEPT ![p] = TRUE]
               /\ last' = Event("check", p, Nil)
               /\ UNCHANGED << conn, ep, held, hbFailed >>
    /\ UNCHANGED << conn_pool, conn_endpoints, alias, crashed, hbFailures, anyRedial, extraPuts >>
    /\ UNCHANGED createVars
    /\ dialedAt' = Prune(dialedAt)
    /\ UNCHANGED regVars

\* the recursive call of line 112: lines 97-101 again
GetRecheck(p) ==
    /\ Running
    /\ pc[p] = "check"
    /\ IF NoMoreConnections(conn_endpoints)
          THEN /\ Return(p, Nil)
               /\ EndCall(p)
               /\ last' = Event("return_no_conns", p, Nil)
          ELSE /\ pc' = [pc EXCEPT ![p] = "select"]
               /\ hbFailed' = [hbFailed EXCEPT ![p] = FALSE]
               /\ last' = Event("check", p, Nil)
               /\ UNCHANGED << conn, ep, held, rounds, startTracked, allFail >>
    /\ UNCHANGED << conn_pool, conn_endpoints, alias, crashed, hbFailures, anyRedial, extraPuts >>
    /\ UNCHANGED createVars
    /\ dialedAt' = Prune(dialedAt)
    /\ UNCHANGED regVars

\* a plain receive, without the default case
SelectBranchBlocking(q) == "recv"

\* what the select of lines 103-117 does on channel content q:
\* "recv" takes the head, "default" falls through with conn = nil
SelectBranch(q) == IF Len(q) > 0 THEN "recv" ELSE "default"

\* the test of line 105 inverted
NeedsRedialInverted(ok) == ok

\* the test of line 105 on the heartbeat's result: redial when it failed
NeedsRedial(ok) == ~ok

Saturate(n) == IF n < MaxRounds THEN n + 1 ELSE MaxRounds

\* Get, lines 103-105 and 116-118: the non-blocking receive; on "recv" the
\* heartbeat of the received connection, which succeeds (return it) or fails
GetSelect(p) ==
    /\ Running
    /\ pc[p] = "select"
    /\ IF SelectBranch(conn_pool) = "recv"
          THEN /\ Len(conn_pool) > 0
               /\ conn_pool' = Tail(conn_pool)
               /\ \E ok \in BOOLEAN :
                     /\ ok \/ hbFailures < MaxHbFailures
                     /\ hbFailures' = IF ok THEN hbFailures ELSE hbFailures + 1
                     /\ IF ok THEN SuccessSeen
                              ELSE /\ rounds' = [rounds EXCEPT ![p] = IF allFail[p] THEN Saturate(@) ELSE 0]
                                   /\ UNCHANGED << startTracked, allFail >>
                     /\ IF NeedsRedial(ok)
                           THEN /\ pc' = [pc EXCEPT ![p] = "redial"]
                                /\ conn' = [conn EXCEPT ![p] = Head(conn_pool)]
                                /\ hbFailed' = [hbFailed EXCEPT ![p] = ~ok]
                                /\ last' = Event("recv_redial", p, Nil)
                                /\ UNCHANGED << ep, held >>
                           ELSE /\ Return(p, Head(conn_pool))
                                /\ last' = Event("return_conn", p, Head(conn_pool))
          ELSE /\ Return(p, Nil)
               /\ EndCall(p)
               /\ last' = Event("return_empty", p, Nil)
               /\ UNCHANGED << conn_pool, hbFailures >>
    /\ UNCHANGED << conn_endpoints, alias, crashed, anyRedial, extraPuts >>
    /\ UNCHANGED createVars
    /\ dialedAt' = Prune(dialedAt)
    /\ UNCHANGED regVars

\* Get, lines 106-107: read the endpoint index of the failed connection, and
\* the delete begins
GetDeleteBegin(p) ==
    /\ Running
    /\ pc[p] = "redial"
    /\ ep' = [ep EXCEPT ![p] = MapGet(conn_endpoints, conn[p])]
    /\ pc' = [pc EXCEPT ![p] = "deleting"]
    /\ last' = Event("delete_begin", p, Nil)
    /\ UNCHANGED << conn, held, hbFailed, rounds, startTracked, allFail >>
    /\ UNCHANGED << conn_pool, conn_endpoints, alias, crashed, hbFailures, anyRedial, extraPuts >>
    /\ UNCHANGED createVars
    /\ dialedAt' = Prune(dialedAt)
    /\ UNCHANGED regVars

\* Get, lines 107-108 and 114: the delete takes effect, newRPCConn succeeds
\* and the insert of the new connection begins
GetDialOk(p) ==
    /\ Running
    /\ pc[p] = "deleting"
    /\ NewConn # Nil
    /\ conn_endpoints' = MapDelete(conn_endpoints, conn[p])
    /\ conn' = [conn EXCEPT ![p] = NewConn]
    /\ pc' = [pc EXCEPT ![p] = "inserting"]
    /\ alias' = [alias EXCEPT ![p] = Nil]
    /\ SuccessSeen
    /\ anyRedial' = TRUE
    /\ last' = Event("dial_ok", p, Nil)
    /\ UNCHANGED << ep, held, hbFailed, hbFailures >>
    /\ UNCHANGED << conn_pool, crashed, extraPuts >>
    /\ UNCHANGED createVars
    /\ dialedAt' = Prune(MapSet(dialedAt, NewConn, ep[p]))
    /\ UNCHANGED regVars

\* Get, lines 107-112: the delete takes effect, newRPCConn fails, Get calls itself
GetDialFail(p) ==
    /\ Running
    /\ pc[p] = "deleting"
    /\ conn_endpoints' = MapDelete(conn_endpoints, conn[p])
    /\ conn' = [conn EXCEPT ![p] = Nil]
    /\ ep' = [ep EXCEPT ![p] = 0]
    /\ pc' = [pc EXCEPT ![p] = "check"]
    /\ anyRedial' = TRUE
    /\ last' = Event("dial_fail", p, Nil)
    /\ UNCHANGED << held, hbFailed, rounds, startTracked, allFail, hbFailures >>
    /\ UNCHANGED << conn_pool, alias, crashed, extraPuts >>
    /\ UNCHANGED createVars
    /\ dialedAt' = Prune(dialedAt)
    /\ UNCHANGED regVars

\* the index Get records for the redialed connection: that of the one it replaces
RedialIndex(e) == e

\* Get, lines 114 and 118: the insert takes effect and Get returns the new
\* connection; an insert still in progress may have picked the same slot
GetInsertEnd(p) ==
    /\ Running
    /\ pc[p] = "inserting"
    /\ conn_endpoints' = MapSet(conn_endpoints, conn[p], RedialIndex(ep[p]))
    /\ alias' = [q \in Callers |->
                   IF q # p /\ pc[q] = "inserting" THEN conn[p] ELSE Nil]
    /\ Return(p, conn[p])
    /\ EndCall(p)
    /\ last' = Event("return_new", p, conn[p])
    /\ UNCHANGED << conn_pool, crashed, hbFailures, anyRedial, extraPuts >>
    /\ UNCHANGED createVars
    /\ dialedAt' = Prune(dialedAt)
    /\ UNCHANGED regVars

\* Get, lines 114 and 118, racing with an insert that used the same slot and
\* went unnoticed by the runtime: the value lands on the other insert's key,
\* this call's key is lost
GetInsertEndTorn(p) ==
    /\ Running
    /\ pc[p] = "inserting"
    /\ alias[p] # Nil
    /\ alias[p] \in DOMAIN conn_endpoints
    /\ conn_endpoints' = [conn_endpoints EXCEPT ![alias[p]] = RedialIndex(ep[p])]
    /\ alias' = [alias EXCEPT ![p] = Nil]
    /\ Return(p, conn[p])
    /\ EndCall(p)
    /\ last' = Event("return_new_torn", p, conn[p])
    /\ UNCHANGED << conn_pool, crashed, hbFailures, anyRedial, extraPuts >>
    /\ UNCHANGED createVars
    /\ dialedAt' = Prune(dialedAt)
    /\ UNCHANGED regVars

\* the runtime notices an access to conn_endpoints overlapping a write of
\* another goroutine and aborts the process (fatal error: concurrent map ...)
ConcurrentMapFatal ==
    /\ Running
    /\ \E p \in AtMapAccess : \E q \in MidWrite : p # q
    /\ crashed' = TRUE
    /\ last' = Event("fatal", 0, Nil)
    /\ UNCHANGED << conn_pool, conn_endpoints, extraPuts >>
    /\ UNCHANGED callVars
    /\ UNCHANGED createVars
    /\ dialedAt' = Prune(dialedAt)
    /\ UNCHANGED regVars

\* a Put after which the caller still counts the connection as its own
PutKeeping(p, c) ==
    /\ Running
    /\ pc[p] = "idle"
    /\ c \in held[p]
    /\ conn_pool' = ChanOffer(conn_pool, c, Capacity)
    /\ last' = Event("Put", p, c)
    /\ UNCHANGED callVars
    /\ UNCHANGED << conn_endpoints, crashed, extraPuts >>
    /\ UNCHANGED createVars
    /\ dialedAt' = Prune(dialedAt)
    /\ UNCHANGED regVars

\* Put, lines 122-127, by a caller giving back a connection it got from Get
Put(p, c) ==
    /\ Running
    /\ pc[p] = "idle"
    /\ c \in held[p]
    /\ conn_pool' = ChanOffer(conn_pool, c, Capacity)
    /\ held' = [held EXCEPT ![p] = @ \ {c}]
    /\ last' = Event("Put", p, c)
    /\ UNCHANGED << pc, conn, ep, alias, hbFailed, rounds, startTracked, allFail,
                    hbFailures, anyRedial >>
    /\ UNCHANGED << conn_endpoints, crashed, extraPuts >>
    /\ UNCHANGED createVars
    /\ dialedAt' = Prune(dialedAt)
    /\ UNCHANGED regVars

\* Put, lines 122-127, by a caller that keeps the pointer and so can use or
\* release the connection again
PutAgain(p, c) ==
    /\ Running
    /\ pc[p] = "idle"
    /\ c \in held[p]
    /\ extraPuts < MaxExtraPuts
    /\ extraPuts' = extraPuts + 1
    /\ conn_pool' = ChanOffer(conn_pool, c, Capacity)
    /\ last' = Event("Put", p, c)
    /\ UNCHANGED callVars
    /\ UNCHANGED << conn_endpoints, crashed >>
    /\ UNCHANGED createVars
    /\ dialedAt' = Prune(dialedAt)
    /\ UNCHANGED regVars

Next ==
    \/ CreateCheck
    \/ CreateDialOk
    \/ CreateDialFail
    \/ CreateFinish
    \/ \E p \in Callers : GetCall(p)
    \/ \E p \in Callers : GetRecheck(p)
    \/ \E p \in Callers : GetSelect(p)
    \/ \E p \in Callers : GetDeleteBegin(p)
    \/ \E p \in Callers : GetDialOk(p)
    \/ \E p \in Callers : GetDialFail(p)
    \/ \E p \in Callers : GetInsertEnd(p)
    \/ \E p \in Callers : GetInsertEndTorn(p)
    \/ ConcurrentMapFatal
    \/ \E p \in Callers : \E c \in Conns : Put(p, c)
    \/ \E p \in Callers : \E c \in Conns : PutAgain(p, c)

Spec == Init /\ [][Next]_vars

\* NewRpcClientPool alone, before the pool is handed to any caller
NextCreate ==
    \/ CreateCheck
    \/ CreateDialOk
    \/ CreateDialFail
    \/ CreateFinish

SpecCreate == InitCreate /\ [][NextCreate]_vars

\* callers that release only what Get gave them, each connection once
NextDisciplined ==
    \/ CreateCheck
    \/ CreateDialOk
    \/ CreateDialFail
    \/ CreateFinish
    \/ \E p \in Callers : GetCall(p)
    \/ \E p \in Callers : GetRecheck(p)
    \/ \E p \in Callers : GetSelect(p)
    \/ \E p \in Callers : GetDeleteBegin(p)
    \/ \E p \in Callers : GetDialOk(p)
    \/ \E p \in Callers : GetDialFail(p)
    \/ \E p \in Callers : GetInsertEnd(p)
    \/ \E p \in Callers : GetInsertEndTorn(p)
    \/ ConcurrentMapFatal
    \/ \E p \in Callers : \E c \in Conns : Put(p, c)

SpecDisciplined == Init /\ [][NextDisciplined]_vars

\* Get's select with a heartbeat that succeeds
GetSelectHealthy(p) ==
    /\ GetSelect(p)
    /\ hbFailures' = hbFailures

\* a created pool whose callers only call Get, none releasing, the heartbeat
\* always succeeding
NextSuccessive ==
    \/ CreateCheck
    \/ CreateDialOk
    \/ CreateDialFail
    \/ CreateFinish
    \/ \E p \in Callers : GetCall(p)
    \/ \E p \in Callers : GetSelectHealthy(p)

SpecSuccessive == InitCreate /\ [][NextSuccessive]_vars

\* ---- the registry: CreateClientPool, GetPooledConn and PooledConnDone of
\* Configurations, used by one client.  The pool CreateClientPool is creating
\* is the pool of the variables above; a pool it has stored in c.client_map is
\* a record of the same fields.

\* a configuration and the arguments of CreateClientPool, within the bounds;
\* ClientConfig[i] is the SvcName of the i-th entry of c.ClientConfig
InitRegistry ==
    /\ ClientConfig \in UNION {[1 .. n -> Services] : n \in 0 .. MaxConfigs}
    /\ heartbeat_map \in SUBSET Services
    /\ conn_per_ep \in 0 .. MaxConnPerEp
    /\ len_endpoints = 0
    /\ phase = "none"
    /\ ci = 0
    /\ cj = 0
    /\ err = ""
    /\ attempts = 0
    /\ createdOk = 0
    /\ conn_pool = << >>
    /\ conn_endpoints = << >>
    /\ endpoints_map = {}
    /\ pool_created = FALSE
    /\ dialedAt = << >>
    /\ pc = [p \in Callers |-> "idle"]
    /\ conn = [p \in Callers |-> Nil]
    /\ ep = [p \in Callers |-> 0]
    /\ held = [p \in Callers |-> {}]
    /\ alias = [p \in Callers |-> Nil]
    /\ crashed = FALSE
    /\ hbFailed = [p \in Callers |-> FALSE]
    /\ rounds = [p \in Callers |-> 0]
    /\ startTracked = [p \in Callers |-> 0]
    /\ allFail = [p \in Callers |-> FALSE]
    /\ hbFailures = 0
    /\ anyRedial = FALSE
    /\ extraPuts = 0
    /\ last = Event("init", 0, Nil)
    /\ ep_map = << >>
    /\ todo = {}
    /\ cur = ""
    /\ client_map = << >>
    /\ regPhase = "config"
    /\ regErr = NoError
    /\ regHeld = [k \in Services |-> {}]
    /\ regLast = RegEvent("init", "", Nil)

\* the pool variables nobody looks at outside a NewRpcClientPool call
poolVars == << len_endpoints, phase, ci, cj, err, conn_pool, conn_endpoints, endpoints_map,
               pool_created, attempts, createdOk >>

\* NewRpcClientPool is entered with n endpoints: a new RpcClientPool
EnterNewRpcClientPool(n) ==
    /\ len_endpoints' = n
    /\ phase' = "new"
    /\ ci' = 0
    /\ cj' = 0
    /\ err' = ""
    /\ conn_pool' = << >>
    /\ conn_endpoints' = << >>
    /\ endpoints_map' = {}
    /\ pool_created' = FALSE
    /\ attempts' = 0
    /\ createdOk' = 0

\* NewRpcClientPool has returned: its result is where the caller stored it
LeaveNewRpcClientPool ==
    /\ len_endpoints' = 0
    /\ phase' = "none"
    /\ ci' = 0
    /\ cj' = 0
    /\ err' = ""
    /\ conn_pool' = << >>
    /\ conn_endpoints' = << >>
    /\ endpoints_map' = {}
    /\ pool_created' = FALSE
    /\ attempts' = 0
    /\ createdOk' = 0

\* line 176: val = append(val, c.ClientConfig[i]) extends val, the copy of the
\* slice the lookup returned; nothing is written to ep_map
GroupAppend(m, k, i) == m

\* lines 174-180 from entry i on: the descriptors (their positions in
\* c.ClientConfig) grouped by service name
RECURSIVE GroupFrom(_, _, _)
GroupFrom(cfg, i, m) ==
    IF i > Len(cfg) THEN m
    ELSE GroupFrom(cfg, i + 1,
                   IF cfg[i] \in DOMAIN m THEN GroupAppend(m, cfg[i], i)
                                          ELSE MapSet(m, cfg[i], << i >>))

\* CreateClientPool, lines 172-182: group the descriptors, make c.client_map
CreateClientPoolGroup ==
    /\ regPhase = "config"
    /\ ep_map' = GroupFrom(ClientConfig, 1, << >>)
    /\ todo' = DOMAIN ep_map'
    /\ client_map' = << >>
    /\ regPhase' = "range"
    /\ regLast' = RegEvent("group", "", Nil)
    /\ UNCHANGED << ClientConfig, heartbeat_map, cur, regErr, regHeld >>
    /\ UNCHANGED << conn_per_ep, crashed, extraPuts, last >>
    /\ UNCHANGED poolVars
    /\ UNCHANGED callVars
    /\ dialedAt' = Prune(dialedAt)

\* CreateClientPool, lines 184-189 and 194: the range loop takes a key of
\* ep_map not visited yet, in whatever order the map yields them, looks up
\* its heartbeat and calls NewRpcClientPool; with no key left it returns nil
CreateClientPoolRange ==
    /\ regPhase = "range"
    /\ IF todo = {}
          THEN /\ regPhase' = "built"
               /\ regErr' = NoError
               /\ regLast' = RegEvent("built", "", Nil)
               /\ UNCHANGED cur
               /\ UNCHANGED poolVars
          ELSE \E k \in todo :
                  /\ cur' = k
                  /\ IF k \notin heartbeat_map
                        THEN /\ regErr' = MissingHeartbeat(k)
                             /\ regPhase' = "failed"
                             /\ regLast' = RegEvent("build_failed", k, Nil)
                             /\ UNCHANGED poolVars
                        ELSE /\ regErr' = regErr
                             /\ regPhase' = "creating"
                             /\ regLast' = RegEvent("new_pool", k, Nil)
                             /\ EnterNewRpcClientPool(Len(ep_map[k]))
    /\ UNCHANGED << ClientConfig, heartbeat_map, ep_map, todo, client_map, regHeld >>
    /\ UNCHANGED << conn_per_ep, crashed, extraPuts, last >>
    /\ UNCHANGED callVars
    /\ dialedAt' = Prune(dialedAt)

\* the nil *RpcClientPool NewRpcClientPool returns on error
NilPool ==
    [isNil |-> TRUE, conn_pool |-> << >>, conn_endpoints |-> << >>, endpoints_map |-> {},
     cap |-> 0, pool_created |-> FALSE]

\* the pool NewRpcClientPool returns on success
ThisPool ==
    [isNil |-> FALSE, conn_pool |-> conn_pool, conn_endpoints |-> conn_endpoints,
     endpoints_map |-> endpoints_map, cap |-> Capacity, pool_created |-> pool_created]

\* CreateClientPool, lines 189-192: what NewRpcClientPool returned, a pool or
\* nil, is stored under k; nil makes CreateClientPool return an error
CreateClientPoolStore ==
    /\ regPhase = "creating"
    /\ phase \in {"ready", "failed"}
    /\ client_map' = MapSet(client_map, cur, IF phase = "ready" THEN ThisPool ELSE NilPool)
    /\ IF phase = "failed"
          THEN /\ regErr' = PoolCreateFailed(cur)
               /\ regPhase' = "failed"
               /\ regLast' = RegEvent("build_failed", cur, Nil)
               /\ UNCHANGED todo
          ELSE /\ regErr' = regErr
               /\ regPhase' = "range"
               /\ regLast' = RegEvent("stored", cur, Nil)
               /\ todo' = todo \ {cur}
    /\ LeaveNewRpcClientPool
    /\ UNCHANGED << ClientConfig, heartbeat_map, ep_map, cur, regHeld >>
    /\ UNCHANGED << conn_per_ep, crashed, extraPuts, last >>
    /\ UNCHANGED callVars
    /\ dialedAt' = Prune(dialedAt)

\* what a round of Get can meet: the heartbeat succeeds; it fails and the
\* redial succeeds; it fails and the redial fails
Outcomes == {"ok", "redial", "fail"}

\* r.Get() run to its return with no other goroutine on the pool r (lines
\* 97-119): outcomes[i] is what round i meets, new the pointer a successful
\* dial returns
RECURSIVE PoolGet(_, _, _)
PoolGet(r, outcomes, new) ==
    IF NoMoreConnections(r.conn_endpoints) THEN [pool |-> r, ret |-> Nil]
    ELSE IF SelectBranch(r.conn_pool) = "default" THEN [pool |-> r, ret |-> Nil]
    ELSE LET c == Head(r.conn_pool)
             e == MapGet(r.conn_endpoints, c)
             popped == [r EXCEPT !.conn_pool = Tail(@)]
             deleted == [popped EXCEPT !.conn_endpoints = MapDelete(@, c)]
         IN  IF ~NeedsRedial(Head(outcomes) # "ok") THEN [pool |-> popped, ret |-> c]
             ELSE IF Head(outcomes) = "redial"
                     THEN [pool |-> [deleted EXCEPT !.conn_endpoints =
                                        MapSet(@, new, RedialIndex(e))],
                           ret |-> new]
                     ELSE PoolGet(deleted, Tail(outcomes), new)

\* the registry's client is between two calls and the process is alive
RegIdle == regPhase \in {"config", "built", "failed"}

\* GetPooledConn(svc_name), lines 197-206
GetPooledConn(k) ==
    /\ RegIdle
    /\ NewConn # Nil
    /\ IF k \notin DOMAIN client_map
          THEN /\ regLast' = RegEvent("GetPooledConn", k, Nil)
               /\ UNCHANGED << client_map, regHeld, regPhase >>
          ELSE IF client_map[k].isNil
          \* val.pool_created through a nil pointer
          THEN /\ regLast' = RegEvent("GetPooledConn_panic", k, Nil)
               /\ regPhase' = "panicked"
               /\ UNCHANGED << client_map, regHeld >>
          ELSE IF ~client_map[k].pool_created
          THEN /\ regLast' = RegEvent("GetPooledConn", k, Nil)
               /\ UNCHANGED << client_map, regHeld, regPhase >>
          ELSE \E outcomes \in [1 .. Len(client_map[k].conn_pool) -> Outcomes] :
                  LET got == PoolGet(client_map[k], outcomes, NewConn)
                  IN  /\ client_map' = [client_map EXCEPT ![k] = got.pool]
                      /\ regHeld' = [regHeld EXCEPT ![k] =
                                        IF got.ret = Nil THEN @ ELSE @ \cup {got.ret}]
                      /\ regLast' = RegEvent("GetPooledConn", k, got.ret)
                      /\ UNCHANGED regPhase
    /\ UNCHANGED << ClientConfig, heartbeat_map, ep_map, todo, cur, regErr >>
    /\ UNCHANGED << conn_per_ep, crashed, extraPuts, last >>
    /\ UNCHANGED poolVars
    /\ UNCHANGED callVars
    /\ dialedAt' = Prune(dialedAt)

\* PooledConnDone(svc_name, conn), lines 208-214, with a connection the client
\* got for service from: under the same name, or under a name that has no pool
PooledConnDone(k, from, c) ==
    /\ RegIdle
    /\ c \in regHeld[from]
    /\ k = from \/ k \notin DOMAIN client_map
    /\ IF k \notin DOMAIN client_map \/ client_map[k].isNil
          \* panic("unexpected connection returned to pool."), or val.Put
          \* through a nil pointer
          THEN /\ regLast' = RegEvent("PooledConnDone_panic", k, c)
               /\ regPhase' = "panicked"
               /\ UNCHANGED << client_map, regHeld >>
          ELSE /\ client_map' = [client_map EXCEPT ![k].conn_pool = ChanOffer(@, c, client_map[k].cap)]
               /\ regHeld' = [regHeld EXCEPT ![from] = @ \ {c}]
               /\ regLast' = RegEvent("PooledConnDone", k, c)
               /\ UNCHANGED regPhase
    /\ UNCHANGED << ClientConfig, heartbeat_map, ep_map, todo, cur, regErr >>
    /\ UNCHANGED << conn_per_ep, crashed, extraPuts, last >>
    /\ UNCHANGED poolVars
    /\ UNCHANGED callVars
    /\ dialedAt' = Prune(dialedAt)

NextRegistry ==
    \/ CreateClientPoolGroup
    \/ CreateClientPoolRange
    \/ CreateCheck
    \/ CreateDialOk
    \/ CreateDialFail
    \/ CreateFinish
    \/ CreateClientPoolStore
    \/ \E k \in Services : GetPooledConn(k)
    \/ \E k \in Services : \E from \in Services : \E c \in Conns : PooledConnDone(k, from, c)

SpecRegistry == InitRegistry /\ [][NextRegistry]_vars

\* ---- properties

\* C1: in every reachable state, whatever Get and Put calls were interleaved,
\* the idle queue holds at most conn_per_ep * len(endpoints) connections.
IdleQueueBounded == Len(conn_pool) <= conn_per_ep * len_endpoints

\* a release reached a full idle queue
IdleQueueFullAtPut ==
    /\ PoolReturned
    /\ last.op = "Put"
    /\ extraPuts > 0
    /\ Len(conn_pool) = conn_per_ep * len_endpoints

\* the steps of lines 97-105 and 116-118 of Get
EntryOps == {"check", "return_no_conns", "return_empty", "recv_redial", "return_conn"}

\* C2: a step of Get taken while the idle queue is empty changes neither the
\* queue nor the map, runs no heartbeat and no dial, and at the select it
\* returns nil in that very step; the select is always able to take its step
\* (Get never waits for a release).
AcquireOnEmptyStep ==
    \A p \in Callers :
        (last'.who = p /\ last'.op \in EntryOps /\ Len(conn_pool) = 0) =>
            /\ last'.op \in {"check", "return_no_conns", "return_empty"}
            /\ conn_pool' = conn_pool
            /\ conn_endpoints' = conn_endpoints
            /\ hbFailures' = hbFailures
            /\ anyRedial' = anyRedial
            /\ held' = held
            /\ pc[p] = "select" => (pc'[p] = "idle" /\ last' = Event("return_empty", p, Nil))
SelectNeverBlocks ==
    \A p \in Callers : (Running /\ pc[p] = "select") => ENABLED GetSelect(p)
AcquireOnEmptyReturnsNone == []SelectNeverBlocks /\ [][AcquireOnEmptyStep]_vars

\* Get found the queue empty with connections still tracked, and returned nil
ReturnedNoneOnEmpty ==
    /\ last.op = "return_empty"
    /\ Len(conn_pool) = 0
    /\ MapLen(conn_endpoints) > 0
    /\ pc[last.who] = "idle"

\* C3: Put on a full idle queue leaves the queue and the map as they were and
\* returns (the caller stays idle, nothing aborts); Put with spare capacity
\* appends the connection; Put is always able to take its step.
ReleaseStep ==
    last'.op = "Put" =>
        /\ conn_endpoints' = conn_endpoints
        /\ pc' = pc
        /\ ~crashed'
        /\ IF Len(conn_pool) >= conn_per_ep * len_endpoints
              THEN conn_pool' = conn_pool
              ELSE conn_pool' = Append(conn_pool, last'.c)
PutNeverBlocks ==
    \A p \in Callers : \A c \in held[p] :
        (Running /\ pc[p] = "idle") => ENABLED Put(p, c)
ReleaseDropsWhenFull == []PutNeverBlocks /\ [][ReleaseStep]_vars

\* a release was dropped: the queue is full and does not end with the
\* connection just released
ReleaseWasDropped ==
    /\ last.op = "Put"
    /\ Len(conn_pool) = conn_per_ep * len_endpoints
    /\ Len(conn_pool) > 0
    /\ conn_pool[Len(conn_pool)] # last.c

\* C4: newRPCConn runs only in createPool and, in Get, only in a round whose
\* heartbeat failed; without a heartbeat failure Get never dials.
DialOnlyAfterHeartbeatFailure ==
    /\ last.op \in {"create_dial_ok", "create_dial_fail"} => ~pool_created
    /\ last.op \in {"dial_ok", "dial_fail"} => hbFailed[last.who]
    /\ \A p \in Callers : pc[p] = "deleting" => hbFailed[p]
    /\ anyRedial => hbFailures > 0

\* Get redialed after a heartbeat failure
RedialedAfterFailure ==
    /\ last.op = "dial_ok"
    /\ hbFailed[last.who]
    /\ hbFailures > 0

Queued == {conn_pool[k] : k \in DOMAIN conn_pool}

\* createPool has just returned
CreateReturned == last.op \in {"create_check", "create_finish"} /\ phase \in {"ready", "failed"}

\* C6: when k >= 1 of the conn_per_ep * len(endpoints) dials of createPool
\* succeed, createPool succeeds with pool_created set, exactly k connections
\* in the map, each under the index of the endpoint it was dialed against, and
\* exactly those k connections in the idle queue.
CreateWithSomeConnections ==
    (CreateReturned /\ createdOk >= 1) =>
        /\ phase = "ready"
        /\ err = ""
        /\ pool_created
        /\ attempts = conn_per_ep * len_endpoints
        /\ MapLen(conn_endpoints) = createdOk
        /\ \A c \in DOMAIN conn_endpoints :
              c \in DOMAIN dialedAt /\ conn_endpoints[c] = dialedAt[c]
        /\ Len(conn_pool) = createdOk
        /\ Queued = DOMAIN conn_endpoints

\* createPool returned a pool over two endpoints with two connections each,
\* three of the four dials having succeeded
CreatedPartially ==
    /\ CreateReturned
    /\ phase = "ready"
    /\ len_endpoints = 2
    /\ conn_per_ep = 2
    /\ attempts = 4
    /\ createdOk = 3
    /\ Queued = DOMAIN conn_endpoints

\* C7: when every dial of createPool fails, createPool fails with FATAL_ERROR,
\* NewRpcClientPool returns no pool and pool_created is never set.
CreateWithNoConnection ==
    (phase \in {"ready", "failed"} /\ attempts > 0 /\ createdOk = 0) =>
        /\ phase = "failed"
        /\ err = FATAL_ERROR
        /\ ~pool_created
        /\ ~PoolReturned

\* createPool ended after all its dials failed
AllDialsFailed ==
    /\ phase = "failed"
    /\ attempts = conn_per_ep * len_endpoints
    /\ attempts > 0
    /\ createdOk = 0

\* C8: createPool with no endpoint or with conn_per_ep = 0 fails with
\* INVALID_REQ before any dial, and no pool is returned.
CreateInvalidRequest ==
    ((len_endpoints = 0 \/ conn_per_ep = 0) /\ phase # "new") =>
        /\ phase = "failed"
        /\ err = INVALID_REQ
        /\ attempts = 0
        /\ ~pool_created
        /\ conn_endpoints = << >>

\* createPool rejected a request with endpoints but conn_per_ep = 0
RejectedZeroConnPerEp ==
    /\ phase = "failed"
    /\ err = INVALID_REQ
    /\ len_endpoints > 0
    /\ conn_per_ep = 0

\* C9: no two callers are at the same time inside the accesses to the map on
\* the redial path, and no caller reads the map's size while another is
\* inside a write to it.
MapAccessExclusive ==
    \A p \in Callers : \A q \in Callers \ {p} :
        /\ ~(p \in AtMapAccess /\ q \in AtMapAccess)
        /\ ~(pc[p] = "check" /\ q \in MidWrite)

\* C10: the index recorded for a connection does not change while the
\* connection stays in the map.
OwnershipIndexStableStep ==
    \A c \in (DOMAIN conn_endpoints) \cap (DOMAIN conn_endpoints') :
        conn_endpoints'[c] = conn_endpoints[c]
OwnershipIndexStable == [][OwnershipIndexStableStep]_vars

\* the number of descriptors c.ClientConfig holds for service k
ConfiguredEndpoints(k) == Cardinality({i \in DOMAIN ClientConfig : ClientConfig[i] = k})

\* the service names that occur in c.ClientConfig
ConfiguredServices == {ClientConfig[i] : i \in DOMAIN ClientConfig}

\* C11: a pool CreateClientPool stored for a service configured with m
\* endpoints has m entries in its endpoint table and capacity conn_per_ep * m,
\* and a CreateClientPool that returned nil has stored a pool for every
\* configured service.
RegistryPoolOverAllEndpoints ==
    /\ \A k \in DOMAIN client_map :
          ~client_map[k].isNil =>
              /\ Cardinality(client_map[k].endpoints_map) = ConfiguredEndpoints(k)
              /\ client_map[k].cap = conn_per_ep * ConfiguredEndpoints(k)
    /\ regPhase = "built" =>
          /\ DOMAIN client_map = ConfiguredServices
          /\ \A k \in DOMAIN client_map : ~client_map[k].isNil

\* CreateClientPool has returned
BuildReturned == regPhase \notin {"unused", "config", "range", "creating"}

\* the configured services that have no entry in heartbeat_map
WithoutHeartbeat == ConfiguredServices \ heartbeat_map

\* C12: when some configured service has no entry in heartbeat_map,
\* CreateClientPool returns the missing-heartbeat error naming such a service;
\* when every configured service has one, it never returns that error.
MissingHeartbeatReported ==
    BuildReturned =>
        IF WithoutHeartbeat # {}
           THEN regErr \in {MissingHeartbeat(k) : k \in WithoutHeartbeat}
           ELSE regErr \notin {MissingHeartbeat(k) : k \in Services}

\* service k has no pool: CreateClientPool stored nothing under k, or stored
\* the nil NewRpcClientPool returned
HasNoPool(k) == k \notin DOMAIN client_map \/ client_map[k].isNil

\* C13: GetPooledConn for a service name that has no pool returns nil, does
\* not abort the process and leaves every pool of c.client_map as it was.
AcquireWithoutPoolStep ==
    \A k \in Services :
        (/\ regLast'.op \in {"GetPooledConn", "GetPooledConn_panic"}
         /\ regLast'.svc = k
         /\ HasNoPool(k)) =>
            /\ regLast' = RegEvent("GetPooledConn", k, Nil)
            /\ regPhase' # "panicked"
            /\ client_map' = client_map
AcquireWithoutPoolReturnsNone == [][AcquireWithoutPoolStep]_vars

\* C14: in a Get whose popped connection c failed its heartbeat and whose
\* redial succeeded, the delete removes c from the map (one key fewer), the
\* new connection is another pointer than c, and the return leaves the new
\* connection in the map (one key more, so as many as before the call) under
\* the index c had, and hands the new connection to the caller.
RedialReplacesStep ==
    \A p \in Callers :
        /\ (last' = Event("dial_ok", p, Nil) /\ pc[p] = "deleting") =>
              /\ conn[p] \notin DOMAIN conn_endpoints'
              /\ MapLen(conn_endpoints') = MapLen(conn_endpoints) - 1
              /\ conn'[p] # conn[p]
        /\ (last'.op \in {"return_new", "return_new_torn"} /\ last'.who = p
                /\ pc[p] = "inserting") =>
              /\ conn[p] \in DOMAIN conn_endpoints'
              /\ conn_endpoints'[conn[p]] = ep[p]
              /\ MapLen(conn_endpoints') = MapLen(conn_endpoints) + 1
              /\ last'.c = conn[p]
              /\ conn[p] \in held'[p]
RedialReplaces == [][RedialReplacesStep]_vars

\* the connections handed to callers and not released
HandedOut == UNION {held[p] : p \in Callers}

\* C15: on a pool created with k connections, with a heartbeat that always
\* succeeds and no Put, each Get that returns a connection returns one that
\* no earlier Get returned, a Get returns a connection while fewer than k were
\* returned, and the Get after the k-th returns nil; the queue holds the
\* k minus the returned connections.
SuccessiveAcquireStep ==
    \A p \in Callers :
        (last'.who = p /\ pc[p] = "select") =>
            IF Cardinality(HandedOut) < createdOk
               THEN /\ last'.op = "return_conn"
                    /\ last'.c # Nil
                    /\ last'.c \notin HandedOut
                    /\ HandedOut' = HandedOut \cup {last'.c}
               ELSE /\ last'.op \in {"return_empty", "return_no_conns"}
                    /\ last'.c = Nil
                    /\ HandedOut' = HandedOut
QueueHoldsTheRest ==
    PoolReturned => Len(conn_pool) + Cardinality(HandedOut) = createdOk
SuccessiveAcquiresDistinct == []QueueHoldsTheRest /\ [][SuccessiveAcquireStep]_vars

\* on a pool created with three connections, three Gets returned three
\* connections and the fourth has just returned nil
FourthAcquireReturnedNone ==
    /\ createdOk = 3
    /\ Cardinality(HandedOut) = 3
    /\ last.op = "return_empty"
    /\ Len(conn_pool) = 0

\* how many entries of the idle queue are connection c
TimesQueued(c) == Cardinality({k \in DOMAIN conn_pool : conn_pool[k] = c})

\* the callers that have connection c: got it from Get and did not release it,
\* or are inside a Get that has it in hand
Holders(c) == {p \in Callers : c \in held[p] \/ conn[p] = c}

\* C16: with callers that release only what Get gave them, once each, every
\* connection in the map is either exactly once in the idle queue or in the
\* hands of exactly one caller, no connection is in the hands of two callers,
\* and every entry of the idle queue is in the map.
EachConnectionInOnePlace ==
    /\ \A c \in DOMAIN conn_endpoints : TimesQueued(c) + Cardinality(Holders(c)) = 1
    /\ \A c \in Conns : Cardinality(Holders(c)) <= 1
    /\ Queued \subseteq DOMAIN conn_endpoints

\* C17: with callers that release only what Get gave them, once each, the
\* idle queue has room whenever a caller holds a connection it can release,
\* and every Put appends its connection to the queue: the default branch of
\* Put's select is never taken.
ReleaseFindsRoomStep ==
    last'.op = "Put" =>
        /\ Len(conn_pool) < conn_per_ep * len_endpoints
        /\ conn_pool' = Append(conn_pool, last'.c)
RoomForEveryHeld ==
    \A p \in Callers : held[p] # {} => Len(conn_pool) < conn_per_ep * len_endpoints
ReleaseNeverOverflows == []RoomForEveryHeld /\ [][ReleaseFindsRoomStep]_vars

\* after a redial, a release has just filled the idle queue
ReleaseFilledQueue ==
    /\ last.op = "Put"
    /\ anyRedial
    /\ Len(conn_pool) = conn_per_ep * len_endpoints
    /\ conn_pool[Len(conn_pool)] = last.c

\* the connections the map tracks, counting the one a Get has deleted and is
\* about to replace with the connection it has dialed
Tracked == MapLen(conn_endpoints) + Cardinality({p \in Callers : pc[p] = "inserting"})

\* C18: once the pool is created, every step of Get and Put leaves the number
\* of tracked connections unchanged, except a failed redial, which lowers it
\* by exactly one; it never goes up.
TrackedNeverIncreasesStep ==
    PoolReturned =>
        IF last'.op = "dial_fail" /\ last'.who \in Callers /\ pc[last'.who] = "deleting"
           THEN Tracked' = Tracked - 1
           ELSE Tracked' = Tracked
TrackedNeverIncreases == [][TrackedNeverIncreasesStep]_vars

\* what a step taken on an exhausted pool may do: keep the map empty and
\* pool_created set, and, when it is a call of Get by caller p, return nil
\* at once without a receive, a heartbeat or a dial
StaysExhausted ==
    /\ MapLen(conn_endpoints') = 0
    /\ pool_created'
    /\ PoolReturned'
    /\ \A p \in Callers :
          (pc[p] = "idle" /\ last'.who = p /\ last'.op # "Put") =>
              /\ last' = Event("return_no_conns", p, Nil)
              /\ pc'[p] = "idle"
              /\ conn_pool' = conn_pool
              /\ held' = held
              /\ hbFailures' = hbFailures
              /\ anyRedial' = anyRedial

\* C19 as stated: from any state of a created pool in which the map is empty,
\* the map stays empty, pool_created stays set and every Get called from
\* then on returns nil at once.
PermanentlyExhaustedStep ==
    (PoolReturned /\ MapLen(conn_endpoints) = 0) => StaysExhausted
PermanentlyExhausted == [][PermanentlyExhaustedStep]_vars

\* the map is empty and no Get is in progress
Exhausted ==
    /\ PoolReturned
    /\ MapLen(conn_endpoints) = 0
    /\ \A p \in Callers : pc[p] = "idle"

\* C19: from a state of a created pool in which the map is empty and no Get
\* is in progress, the map stays empty, pool_created stays set and every Get
\* returns nil at once without a receive, a heartbeat or a dial, whatever is
\* released in between.
ExhaustedWhenQuietStep ==
    Exhausted => (StaysExhausted /\ Exhausted')
PermanentlyExhaustedWhenQuiet == [][ExhaustedWhenQuietStep]_vars

\* an exhausted pool whose idle queue holds a released connection: Get has
\* just returned nil and left it queued
ExhaustedGetIgnoredQueue ==
    /\ Exhausted
    /\ pool_created
    /\ Len(conn_pool) > 0
    /\ last.op = "return_no_conns"
====
